---- MODULE Spec2Model ----
(***************************************************************************)
(* NSIS Script Generator (src/nsis-script-generator.py).                   *)
(*                                                                         *)
(* A Python str is modelled as a sequence of atoms (TLA+ strings): the     *)
(* pieces a text is assembled from.  "App" is <<"App">>, the path          *)
(* C:\icons\app.ico is <<"C:", "\\", "icons", "\\", "app.ico">>, and an    *)
(* f-string is the concatenation (\o) of its literal pieces and its        *)
(* formatted values.  A script is a sequence of lines, each line a str;    *)
(* the blank lines of the template are left out.                           *)
(* A configuration dictionary is a function from the keys it has to their  *)
(* values; an absent key is a key outside its DOMAIN.                      *)
(* The f-strings of lines 432-438 nest the quote that delimits them, which *)
(* Python accepts from version 3.12 on: the model is of the program as     *)
(* such an interpreter runs it.  Of the print calls of the renderer, those *)
(* of the language block (lines 333 and 339) are modelled.                 *)
(***************************************************************************)
EXTENDS Integers, Sequences, FiniteSets, TLC

VARIABLES config,   \* the caller's configuration dictionary
          fs,       \* the paths that exist on disk
          clock,    \* the reading datetime.datetime.now() gives
          calls,    \* the invocations of the renderer made so far
          pc,       \* where the Collector (lines 17-219, 456-661) stands
          call,     \* the prompt helper being run and its arguments
          typed,    \* what input() has delivered so far, oldest first
          returned, \* the value the helper returned
          selected_languages,   \* the list of lines 615-646
          exit_code \* the status sys.exit was called with, NoExit before that

vars == <<config, fs, clock, calls, pc, call, typed, returned, selected_languages, exit_code>>

\* the variables of the Collector other than the dictionary it fills
collector == <<pc, call, typed, returned, selected_languages, exit_code>>

-----------------------------------------------------------------------------
(* Python values and str methods *)

\* the value None: the one value of the model that is not a str or a bool
None == <<"<NoneType>">>

EMPTY == << >>

\* bool(v) of a str or None
Truthy(v) == v # None /\ v # EMPTY

\* str(v), as an f-string formats a value
PyStr(v) == IF v = None THEN <<"None">> ELSE v

\* dict.get(k, d)
Get(c, k, d) == IF k \in DOMAIN c THEN c[k] ELSE d

\* the dictionary c after c[k] = v
Put(c, k, v) == [x \in DOMAIN c \cup {k} |-> IF x = k THEN v ELSE c[x]]

\* the dictionary c without the key k
Drop(c, k) == [x \in DOMAIN c \ {k} |-> c[x]]

\* str.replace(old, new), old being one atom
RECURSIVE Replace(_, _, _)
Replace(s, old, new) ==
    IF s = EMPTY THEN EMPTY
    ELSE (IF Head(s) = old THEN new ELSE <<Head(s)>>) \o Replace(Tail(s), old, new)

LowerAtom(a) ==
    CASE a = "LZMA" -> "lzma"
      [] a = "ZLIB" -> "zlib"
      [] a = "BZIP2" -> "bzip2"
      [] a = ".RTF" -> ".rtf"
      [] OTHER -> a

\* str.lower()
Lower(s) == [i \in 1..Len(s) |-> LowerAtom(s[i])]

\* str.endswith(a), a being one atom
EndsWith(s, a) == s # EMPTY /\ s[Len(s)] = a

-----------------------------------------------------------------------------
(* The operating system *)

\* the working directory of the process
Cwd == <<"C:", "\\", "work">>

\* os.path.exists
Exists(path, files) == path \in files

\* os.path.abspath of a normalised path
AbsPath(path) ==
    IF path # EMPTY /\ path[1] = "C:" THEN path ELSE Cwd \o <<"\\">> \o path

\* strftime('%Y-%m-%d %H:%M:%S') of a clock reading
FormatDate(now) == <<"date#", ToString(now)>>

\* the year of a clock reading: a year spans two readings
YearOf(now) == <<"year#", ToString(now \div 2)>>

-----------------------------------------------------------------------------
(* generate_nsis_script_from_config: the derived context values *)

\* repr of a list of str, as an f-string formats it: ['English', 'French']
RECURSIVE ReprItems(_)
ReprItems(list) ==
    IF list = << >> THEN EMPTY
    ELSE <<"'">> \o Head(list) \o <<"'">>
         \o (IF Tail(list) = << >> THEN EMPTY ELSE <<", ">> \o ReprItems(Tail(list)))

ReprList(list) == <<"[">> \o ReprItems(list) \o <<"]">>

\* lines 332-339: what the language block prints
language_prints(cfg) ==
    IF "selected_languages" \in DOMAIN cfg /\ cfg["selected_languages"] # << >>
    THEN << <<"Debug: Languages selected for NSIS: ">> \o ReprList(cfg["selected_languages"]) >>
    ELSE << <<"Warning: No languages selected, defaulting to English.">> >>

\* language_macros with a fault: no directive is written for an empty or
\* absent list
language_macros_nofallback(cfg) ==
    IF "selected_languages" \in DOMAIN cfg /\ cfg["selected_languages"] # << >>
    THEN [i \in 1..Len(cfg["selected_languages"]) |->
             <<"!insertmacro MUI_LANGUAGE \"">> \o cfg["selected_languages"][i] \o <<"\"">>]
    ELSE << >>

\* language_macros with a fault: the list is walked from its last entry
language_macros_reversed(cfg) ==
    IF "selected_languages" \in DOMAIN cfg /\ cfg["selected_languages"] # << >>
    THEN [i \in 1..Len(cfg["selected_languages"]) |->
             <<"!insertmacro MUI_LANGUAGE \"">>
             \o cfg["selected_languages"][Len(cfg["selected_languages"]) + 1 - i] \o <<"\"">>]
    ELSE << <<"!insertmacro MUI_LANGUAGE \"">> \o <<"English">> \o <<"\"">> >>

\* lines 330-342: one MUI_LANGUAGE macro per selected language, English when
\* the list is absent or empty
language_macros(cfg) ==
    IF "selected_languages" \in DOMAIN cfg /\ cfg["selected_languages"] # << >>
    THEN [i \in 1..Len(cfg["selected_languages"]) |->
             <<"!insertmacro MUI_LANGUAGE \"">> \o cfg["selected_languages"][i] \o <<"\"">>]
    ELSE << <<"!insertmacro MUI_LANGUAGE \"">> \o <<"English">> \o <<"\"">> >>

\* install_dir_base with a fault: the 64-bit root is chosen without looking
\* at request_admin
install_dir_base_unguarded(cfg) ==
    IF Get(cfg, "prefer_64bit", TRUE) THEN <<"$PROGRAMFILES64">>
    ELSE IF Get(cfg, "request_admin", FALSE) THEN <<"$PROGRAMFILES">>
    ELSE <<"$LOCALAPPDATA">>

\* line 345
install_dir_base(cfg) ==
    IF Get(cfg, "prefer_64bit", TRUE) /\ Get(cfg, "request_admin", TRUE)
    THEN <<"$PROGRAMFILES64">>
    ELSE IF Get(cfg, "request_admin", FALSE) THEN <<"$PROGRAMFILES">>
    ELSE <<"$LOCALAPPDATA">>

\* line 346
request_execution_level(cfg) ==
    IF Get(cfg, "request_admin", TRUE)
    THEN <<"RequestExecutionLevel admin">> ELSE <<"RequestExecutionLevel user">>

\* adminregistry with a fault: the branches are swapped
adminregistry_swapped(cfg) == IF Get(cfg, "request_admin", TRUE) THEN <<"HKCU">> ELSE <<"HKLM">>

\* line 347
adminregistry(cfg) == IF Get(cfg, "request_admin", TRUE) THEN <<"HKLM">> ELSE <<"HKCU">>

\* set_compressor_command with a fault: the /SOLID switch is written whatever
\* solid_compression says
set_compressor_command_solid(cfg) ==
    <<"SetCompressor ">> \o <<"/SOLID ">> \o Lower(Get(cfg, "compression", <<"lzma">>))

\* lines 350-352
set_compressor_command(cfg) ==
    <<"SetCompressor ">>
    \o (IF Get(cfg, "solid_compression", TRUE) THEN <<"/SOLID ">> ELSE EMPTY)
    \o Lower(Get(cfg, "compression", <<"lzma">>))

\* the test of lines 356, 363, 365, 367, 422, 425:
\* config.get(key) and os.path.exists(config[key])
SetAndExists(cfg, key, files) ==
    Truthy(Get(cfg, key, None)) /\ Exists(cfg[key], files)

\* config_after with a fault: the flag is cleared whether or not the license
\* file is there
config_after_cleared(cfg, files) == Put(cfg, "show_license_page", FALSE)

\* lines 356-361: the dictionary the caller passed, as the renderer leaves it
config_after(cfg, files) ==
    IF SetAndExists(cfg, "license_file", files) THEN cfg
    ELSE Put(cfg, "show_license_page", FALSE)

\* mui_defines with a fault: the uninstaller's define takes the installer icon
\* first and the uninstaller icon only as the fallback
mui_defines_installer_first(cfg, files) ==
    << <<"!define MUI_ABORTWARNING">> >>
    \o (IF SetAndExists(cfg, "license_file", files)
           /\ EndsWith(Lower(cfg["license_file"]), ".rtf")
        THEN << <<"!define MUI_LICENSEPAGE_CHECKBOX">> >> ELSE << >>)
    \o (IF SetAndExists(cfg, "installer_icon", files)
        THEN << <<"!define MUI_ICON \"">> \o cfg["installer_icon"] \o <<"\"">> >> ELSE << >>)
    \o (IF SetAndExists(cfg, "installer_icon", files)
        THEN << <<"!define MUI_UNICON \"">> \o cfg["installer_icon"] \o <<"\"">> >>
        ELSE IF SetAndExists(cfg, "uninstaller_icon", files)
        THEN << <<"!define MUI_UNICON \"">> \o cfg["uninstaller_icon"] \o <<"\"">> >>
        ELSE << >>)

\* lines 355-369
mui_defines(cfg, files) ==
    << <<"!define MUI_ABORTWARNING">> >>
    \o (IF SetAndExists(cfg, "license_file", files)
           /\ EndsWith(Lower(cfg["license_file"]), ".rtf")
        THEN << <<"!define MUI_LICENSEPAGE_CHECKBOX">> >> ELSE << >>)
    \o (IF SetAndExists(cfg, "installer_icon", files)
        THEN << <<"!define MUI_ICON \"">> \o cfg["installer_icon"] \o <<"\"">> >> ELSE << >>)
    \o (IF SetAndExists(cfg, "uninstaller_icon", files)
        THEN << <<"!define MUI_UNICON \"">> \o cfg["uninstaller_icon"] \o <<"\"">> >>
        ELSE IF SetAndExists(cfg, "installer_icon", files)
        THEN << <<"!define MUI_UNICON \"">> \o cfg["installer_icon"] \o <<"\"">> >>
        ELSE << >>)

\* line 372
page_welcome(cfg) ==
    IF Get(cfg, "show_welcome_page", TRUE)
    THEN <<"!insertmacro MUI_PAGE_WELCOME">> ELSE <<"; Welcome page disabled">>

\* line 373
page_finish(cfg) ==
    IF Get(cfg, "show_finish_page", TRUE)
    THEN <<"!insertmacro MUI_PAGE_FINISH">> ELSE <<"; Finish page disabled">>

\* line 374
page_directory(cfg) ==
    IF Get(cfg, "show_directory_page", TRUE)
    THEN <<"!insertmacro MUI_PAGE_DIRECTORY">> ELSE <<"; Directory page disabled">>

\* page_license with a fault: the flag is read as the caller set it, so a
\* license file that is not on disk is still given a page
page_license_unchecked(cfg, files) ==
    IF Get(cfg, "show_license_page", FALSE) /\ Truthy(Get(cfg, "license_file", None))
    THEN <<"!insertmacro MUI_PAGE_LICENSE \"">> \o cfg["license_file"] \o <<"\"">>
    ELSE <<"; License page disabled or no file specified/found">>

\* line 376, evaluated on the dictionary lines 356-361 have already written to
page_license(cfg, files) ==
    LET c1 == config_after(cfg, files) IN
    IF Get(c1, "show_license_page", FALSE) /\ Truthy(Get(c1, "license_file", None))
    THEN <<"!insertmacro MUI_PAGE_LICENSE \"">> \o c1["license_file"] \o <<"\"">>
    ELSE <<"; License page disabled or no file specified/found">>

\* line 382
source_dir_nsis(cfg) == Replace(cfg["source_dir"], "/", <<"\\">>)

\* line 391
main_exe_path(cfg) ==
    <<"$INSTDIR", "\\">> \o PyStr(Get(cfg, "main_executable", <<"MissingExecutable.exe">>))

\* line 396
sm_link(cfg) ==
    <<"$SMPROGRAMS", "\\", "$StartMenuFolder", "\\">>
    \o Get(cfg, "app_name", <<"MyApp">>) \o <<".lnk">>

\* line 409
desktop_link(cfg) == <<"$DESKTOP", "\\">> \o Get(cfg, "app_name", <<"MyApp">>) \o <<".lnk">>

\* lines 400, 411
CreateShortCut(link, target) ==
    <<"  CreateShortCut \"">> \o link \o <<"\" \"">> \o target
    \o <<"\" \"\" \"">> \o target \o <<"\" 0">>

\* create_shortcut_lines with a fault: the desktop shortcut is created
\* whatever create_desktop_shortcut says
create_shortcut_lines_desktop(cfg) ==
    (IF Get(cfg, "request_admin", TRUE)
     THEN << <<"  SetShellVarContext all ; Install for all users">> >> ELSE << >>)
    \o (IF Get(cfg, "create_startmenu_shortcut", TRUE)
        THEN << <<"  ; Create Start Menu Shortcuts">>,
                <<"  CreateDirectory \"", "$SMPROGRAMS", "\\", "$StartMenuFolder", "\"">>,
                CreateShortCut(sm_link(cfg), main_exe_path(cfg)) >>
        ELSE << >>)
    \o << <<"  ; Create Desktop Shortcut">>,
          CreateShortCut(desktop_link(cfg), main_exe_path(cfg)) >>

\* lines 385-413, the install side
create_shortcut_lines(cfg) ==
    (IF Get(cfg, "request_admin", TRUE)
     THEN << <<"  SetShellVarContext all ; Install for all users">> >> ELSE << >>)
    \o (IF Get(cfg, "create_startmenu_shortcut", TRUE)
        THEN << <<"  ; Create Start Menu Shortcuts">>,
                <<"  CreateDirectory \"", "$SMPROGRAMS", "\\", "$StartMenuFolder", "\"">>,
                CreateShortCut(sm_link(cfg), main_exe_path(cfg)) >>
        ELSE << >>)
    \o (IF Get(cfg, "create_desktop_shortcut", TRUE)
        THEN << <<"  ; Create Desktop Shortcut">>,
                CreateShortCut(desktop_link(cfg), main_exe_path(cfg)) >>
        ELSE << >>)

\* remove_shortcut_lines with a fault: the desktop link is deleted whatever
\* create_desktop_shortcut says
remove_shortcut_lines_desktop(cfg) ==
    (IF Get(cfg, "request_admin", TRUE)
     THEN << <<"  SetShellVarContext all ; Remove for all users">> >> ELSE << >>)
    \o (IF Get(cfg, "create_startmenu_shortcut", TRUE)
        THEN << <<"  ; Remove Start Menu Shortcuts">>,
                <<"  Delete \"">> \o sm_link(cfg) \o <<"\"">>,
                <<"  RMDir \"", "$SMPROGRAMS", "\\", "$StartMenuFolder", "\" ; Only removes if empty">> >>
        ELSE << >>)
    \o << <<"  ; Remove Desktop Shortcut">>,
          <<"  Delete \"">> \o desktop_link(cfg) \o <<"\"">> >>

\* lines 385-413, the uninstall side
remove_shortcut_lines(cfg) ==
    (IF Get(cfg, "request_admin", TRUE)
     THEN << <<"  SetShellVarContext all ; Remove for all users">> >> ELSE << >>)
    \o (IF Get(cfg, "create_startmenu_shortcut", TRUE)
        THEN << <<"  ; Remove Start Menu Shortcuts">>,
                <<"  Delete \"">> \o sm_link(cfg) \o <<"\"">>,
                <<"  RMDir \"", "$SMPROGRAMS", "\\", "$StartMenuFolder", "\" ; Only removes if empty">> >>
        ELSE << >>)
    \o (IF Get(cfg, "create_desktop_shortcut", TRUE)
        THEN << <<"  ; Remove Desktop Shortcut">>,
                <<"  Delete \"">> \o desktop_link(cfg) \o <<"\"">> >>
        ELSE << >>)

\* line 415
create_shortcuts_block(cfg) ==
    IF create_shortcut_lines(cfg) # << >> THEN create_shortcut_lines(cfg)
    ELSE << <<"  ; No shortcuts configured">> >>

\* line 416
remove_shortcuts_block(cfg) ==
    IF remove_shortcut_lines(cfg) # << >> THEN remove_shortcut_lines(cfg)
    ELSE << <<"  ; No shortcuts configured">> >>

\* lines 420-426: the icon the registry entry is to name, None when there is none
uninst_icon_path_reg(cfg, files) ==
    IF SetAndExists(cfg, "uninstaller_icon", files) THEN cfg["uninstaller_icon"]
    ELSE IF SetAndExists(cfg, "installer_icon", files) THEN cfg["installer_icon"]
    ELSE None

\* the outcome of a step that may raise: exc is EMPTY when it did not
Ok(line) == [exc |-> EMPTY, line |-> line]
Raise(exc) == [exc |-> exc, line |-> EMPTY]

\* lines 434-435 and 437-438: the entry naming the main executable.  The key
\* main_executable is present with the value None when no executable was
\* selected (lines 508, 511), and None has no replace method
icon_reg_default(cfg, comment) ==
    LET main_exe == Get(cfg, "main_executable", <<"?.exe">>) IN
    IF main_exe = None THEN Raise(<<"AttributeError">>)
    ELSE IF "uninstall_reg_key" \notin DOMAIN cfg
    THEN Raise(<<"KeyError", "uninstall_reg_key">>)
    ELSE Ok(<<"WriteRegStr ">> \o adminregistry(cfg) \o <<" \"">> \o cfg["uninstall_reg_key"]
            \o <<"\" \"DisplayIcon\" \"", "$INSTDIR", "\\", "\\">>
            \o Replace(main_exe, "\\", <<"\\", "\\">>) \o <<"\"">> \o comment)

\* lines 428-438.  os.path.abspath does not raise on a str, so the handler of
\* line 433 runs only for the KeyError of line 432
uninstall_icon_reg(cfg, files) ==
    LET icon == uninst_icon_path_reg(cfg, files) IN
    IF Truthy(icon)
    THEN IF "uninstall_reg_key" \in DOMAIN cfg
         THEN Ok(<<"WriteRegStr ">> \o adminregistry(cfg) \o <<" \"">> \o cfg["uninstall_reg_key"]
                 \o <<"\" \"DisplayIcon\" \"">>
                 \o Replace(AbsPath(icon), "\\", <<"\\", "\\">>) \o <<"\"">>)
         ELSE icon_reg_default(cfg, <<" ; Default icon due to path issue">>)
    ELSE icon_reg_default(cfg, EMPTY)

-----------------------------------------------------------------------------
(* NSI_TEMPLATE and its formatting *)

\* the named slots of NSI_TEMPLATE, in the order str.format meets them
TemplateSlots ==
    <<"current_year", "generation_date", "app_name", "output_installer_name",
      "install_dir_base", "install_dir_name", "adminregistry", "install_path_reg_key",
      "branding", "product_version", "publisher", "app_version",
      "request_execution_level", "set_compressor_command", "mui_defines",
      "page_welcome", "page_license", "page_directory", "page_finish",
      "language_macros", "start_menu_folder", "source_dir_nsis", "uninstall_reg_key",
      "uninstall_icon_reg", "website", "create_shortcuts_block", "remove_shortcuts_block">>

\* a WriteRegStr line of the template under the uninstall key
WriteUninstStr(c, name, value) ==
    <<"  WriteRegStr ">> \o c["adminregistry"] \o <<" \"">> \o c["uninstall_reg_key"]
    \o <<"\" \"", name, "\" ">> \o value

\* lines 224-321, the blank lines left out
NSI_TEMPLATE(c) ==
    << <<"; NSIS script generated with NSIS Script Generator">>,
       <<"; (c) ">> \o c["current_year"] \o <<" Thibault Savenkoff">>,
       <<"; Generated on: ">> \o c["generation_date"],
       <<"!include MUI2.nsh">>,
       <<"; --- Application Info ---">>,
       <<"Name \"">> \o c["app_name"] \o <<"\"">>,
       <<"OutFile \"">> \o c["output_installer_name"] \o <<"\"">>,
       <<"InstallDir \"">> \o c["install_dir_base"] \o <<"\\">> \o c["install_dir_name"] \o <<"\"">>,
       <<"InstallDirRegKey ">> \o c["adminregistry"] \o <<" \"">> \o c["install_path_reg_key"]
           \o <<"\" \"Install_Dir\"">>,
       <<"BrandingText \"">> \o c["branding"] \o <<"\"">>,
       <<"; --- Version Information (for EXE properties) ---">>,
       <<"VIProductVersion \"">> \o c["product_version"] \o <<"\"">>,
       <<"VIAddVersionKey \"ProductName\" \"">> \o c["app_name"] \o <<"\"">>,
       <<"VIAddVersionKey \"CompanyName\" \"">> \o c["publisher"] \o <<"\"">>,
       <<"VIAddVersionKey \"LegalCopyright\" \"Copyright (c) ">> \o c["current_year"]
           \o <<" ">> \o c["publisher"] \o <<"\"">>,
       <<"VIAddVersionKey \"FileDescription\" \"">> \o c["app_name"] \o <<" Installer\"">>,
       <<"VIAddVersionKey \"FileVersion\" \"">> \o c["app_version"] \o <<"\"">>,
       <<"VIAddVersionKey \"ProductVersion\" \"">> \o c["product_version"] \o <<"\"">>,
       <<"; --- Interface Settings ---">>,
       c["request_execution_level"],
       c["set_compressor_command"],
       <<"; --- Variables ---">>,
       <<"Var StartMenuFolder">>,
       <<"; --- MUI Settings ---">> >>
    \o c["mui_defines"]
    \o << <<"; --- Pages ---">>,
          c["page_welcome"],
          c["page_license"],
          c["page_directory"],
          <<"!insertmacro MUI_PAGE_INSTFILES">>,
          c["page_finish"],
          <<"; --- Uninstaller Pages ---">>,
          <<"!insertmacro MUI_UNPAGE_CONFIRM">>,
          <<"!insertmacro MUI_UNPAGE_INSTFILES">>,
          <<"; --- Language Settings ---">>,
          <<"; NSIS will show a language selection dialog if multiple languages are loaded.">> >>
    \o c["language_macros"]
    \o << <<"; --- Functions ---">>,
          <<"Function .onInit">>,
          <<"  ; Set Start Menu Folder variable">>,
          <<"  StrCpy $StartMenuFolder \"">> \o c["start_menu_folder"] \o <<"\"">>,
          <<"FunctionEnd">>,
          <<"; --- Installation Section ---">>,
          <<"Section \"Install\" SecInstall">>,
          <<"  SetOutPath $INSTDIR">>,
          <<"  SetOverwrite ifnewer">>,
          <<"  ; --- Files ---">>,
          <<"  ; NSIS uses backslashes in paths within the script">>,
          <<"  File /r \"">> \o c["source_dir_nsis"] \o <<"\\", "*.*\"">>,
          <<"  ; --- Registry ---">>,
          <<"  WriteRegStr ">> \o c["adminregistry"] \o <<" \"">> \o c["install_path_reg_key"]
              \o <<"\" \"", "Install_Dir", "\" ", "\"$INSTDIR\"">>,
          WriteUninstStr(c, "DisplayName", <<"\"">> \o c["app_name"] \o <<" (remove only)\"">>),
          WriteUninstStr(c, "UninstallString", <<"'\"$INSTDIR", "\\", "uninstall.exe\"'">>),
          WriteUninstStr(c, "QuietUninstallString", <<"'\"$INSTDIR", "\\", "uninstall.exe\" /S'">>),
          <<"  ">> \o c["uninstall_icon_reg"],
          WriteUninstStr(c, "Publisher", <<"\"">> \o c["publisher"] \o <<"\"">>),
          WriteUninstStr(c, "DisplayVersion", <<"\"">> \o c["app_version"] \o <<"\"">>),
          WriteUninstStr(c, "URLInfoAbout", <<"\"">> \o c["website"] \o <<"\"">>),
          <<"  WriteRegDWORD ">> \o c["adminregistry"] \o <<" \"">> \o c["uninstall_reg_key"]
              \o <<"\" \"", "NoModify", "\" ", "1">>,
          <<"  WriteRegDWORD ">> \o c["adminregistry"] \o <<" \"">> \o c["uninstall_reg_key"]
              \o <<"\" \"", "NoRepair", "\" ", "1">>,
          <<"  ; --- Uninstaller ---">>,
          <<"  WriteUninstaller \"$INSTDIR", "\\", "uninstall.exe\"">>,
          <<"  ; --- Shortcuts ---">> >>
    \o c["create_shortcuts_block"]
    \o << <<"SectionEnd">>,
          <<"; --- Uninstallation Section ---">>,
          <<"Section \"Uninstall\" SecUninstall">>,
          <<"  ; --- Remove Shortcuts ---">> >>
    \o c["remove_shortcuts_block"]
    \o << <<"  ; --- Remove Files ---">>,
          <<"  Delete \"$INSTDIR", "\\", "uninstall.exe\"">>,
          <<"  RMDir /r \"$INSTDIR\"">>,
          <<"  ; --- Remove Registry Keys ---">>,
          <<"  DeleteRegKey ">> \o c["adminregistry"] \o <<" \"">> \o c["uninstall_reg_key"] \o <<"\"">>,
          <<"  DeleteRegKey ">> \o c["adminregistry"] \o <<" \"">> \o c["install_path_reg_key"] \o <<"\"">>,
          <<"SectionEnd">> >>

\* what generate_nsis_script_from_config hands back or raises
Script(lines) == [kind |-> "script", lines |-> lines, error |-> EMPTY]
Failure(key)  == [kind |-> "none",   lines |-> << >>, error |-> <<key>>]
Raised(exc)   == [kind |-> "raise",  lines |-> << >>, error |-> exc]

\* lines 442-449: NSI_TEMPLATE.format(**context); a slot without a value is a
\* KeyError, which is printed and turned into None
format_template(context) ==
    LET missing == {i \in 1..Len(TemplateSlots) : TemplateSlots[i] \notin DOMAIN context} IN
    IF missing # {}
    THEN Failure(TemplateSlots[CHOOSE i \in missing : \A j \in missing : i <= j])
    ELSE Script(NSI_TEMPLATE(context))

\* the assignments to context of lines 342-438
derived_context(cfg, files) ==
    [language_macros         |-> language_macros(cfg),
     install_dir_base        |-> install_dir_base(cfg),
     request_execution_level |-> request_execution_level(cfg),
     adminregistry           |-> adminregistry(cfg),
     set_compressor_command  |-> set_compressor_command(cfg),
     mui_defines             |-> mui_defines(cfg, files),
     page_welcome            |-> page_welcome(cfg),
     page_finish             |-> page_finish(cfg),
     page_directory          |-> page_directory(cfg),
     page_license            |-> page_license(cfg, files),
     start_menu_folder       |-> cfg["start_menu_folder"],
     source_dir_nsis         |-> source_dir_nsis(cfg),
     create_shortcuts_block  |-> create_shortcuts_block(cfg),
     remove_shortcuts_block  |-> remove_shortcuts_block(cfg),
     uninstall_icon_reg      |-> uninstall_icon_reg(cfg, files).line]

\* context_of with a fault: the generation date is also written over the
\* branding text
context_of_stamped(cfg, files, now) ==
    [branding |-> FormatDate(now)]
    @@ derived_context(cfg, files)
    @@ cfg
    @@ [generation_date |-> FormatDate(now), current_year |-> YearOf(now)]

\* lines 325-328 and 342-438: the two clock readings, overwritten by the
\* caller's dictionary, overwritten by the derived values
context_of(cfg, files, now) ==
    derived_context(cfg, files)
    @@ cfg
    @@ [generation_date |-> FormatDate(now), current_year |-> YearOf(now)]

\* lines 323-452: the value returned, or the exception that leaves the function
generate_nsis_script_from_config(cfg, files, now) ==
    IF "start_menu_folder" \notin DOMAIN cfg THEN Raised(<<"KeyError", "start_menu_folder">>)
    ELSE IF "source_dir" \notin DOMAIN cfg THEN Raised(<<"KeyError", "source_dir">>)
    ELSE IF uninstall_icon_reg(cfg, files).exc # EMPTY
    THEN Raised(uninstall_icon_reg(cfg, files).exc)
    ELSE format_template(context_of(cfg, files, now))

-----------------------------------------------------------------------------
(* The configuration dictionaries handed to the renderer *)

MaxLangs == 2
MaxClock == 1

MainExe == <<"app.exe">>
LicensePath == <<"C:", "\\", "docs", "\\", "license", ".rtf">>
InstallerIcon == <<"C:", "\\", "art", "\\", "setup.ico">>
UninstallerIcon == <<"C:", "\\", "art", "\\", "remove.ico">>
RelativeIcon == <<"art", "\\", "remove.ico">>
Languages == {<<"English">>, <<"French">>, <<"German">>}
Methods == {<<"lzma">>, <<"zlib">>, <<"bzip2">>}

\* lines 465-661 with every prompt answered by its default, the source
\* directory C:\src, the main executable app.exe, and no license or icon
BaseRecord ==
    [app_name |-> <<"App">>,
     app_version |-> <<"1.0.0">>,
     product_version |-> <<"1.0.0.0">>,
     publisher |-> <<"Pub">>,
     website |-> EMPTY,
     source_dir |-> <<"C:", "\\", "src">>,
     main_executable |-> MainExe,
     license_file |-> EMPTY,
     installer_icon |-> EMPTY,
     uninstaller_icon |-> EMPTY,
     output_installer_name |-> <<"App_v1.0.0_Setup", ".exe">>,
     install_dir_name |-> <<"App">>,
     request_admin |-> TRUE,
     prefer_64bit |-> TRUE,
     compression |-> <<"lzma">>,
     solid_compression |-> TRUE,
     create_startmenu_shortcut |-> TRUE,
     start_menu_folder |-> <<"Pub">>,
     create_desktop_shortcut |-> TRUE,
     uninstall_reg_key |-> <<"Software", "\\", "Microsoft", "\\", "Windows", "\\",
                             "CurrentVersion", "\\", "Uninstall", "\\", "App">>,
     install_path_reg_key |-> <<"Software", "\\", "Pub", "\\", "App">>,
     selected_languages |-> << <<"English">> >>,
     branding |-> <<"Pub - App v1.0.0">>,
     show_welcome_page |-> TRUE,
     show_license_page |-> FALSE,
     show_directory_page |-> TRUE,
     show_finish_page |-> TRUE]

AllKeys == DOMAIN BaseRecord

\* the keys a value of NSI_TEMPLATE comes from
RequiredKeys ==
    {"app_name", "app_version", "product_version", "publisher", "website",
     "source_dir", "output_installer_name", "install_dir_name", "start_menu_folder",
     "uninstall_reg_key", "install_path_reg_key", "branding"}

\* the keys generate_nsis_script_from_config reads with a default
DefaultedFlags == {"request_admin", "prefer_64bit"}

\* lines 583-597: the start menu folder is empty when no shortcut is wanted
WithShortcuts(c, sm, dt) ==
    [c EXCEPT !["create_startmenu_shortcut"] = sm,
              !["start_menu_folder"] = IF sm THEN c["publisher"] ELSE EMPTY,
              !["create_desktop_shortcut"] = dt]

\* every combination of the privilege, shortcut and license flags, of the
\* license and icon paths and of the main executable
CoreRecords ==
    {[WithShortcuts(BaseRecord, sm, dt) EXCEPT
         !["request_admin"] = a, !["prefer_64bit"] = p, !["show_license_page"] = sl,
         !["license_file"] = lic, !["installer_icon"] = ii, !["uninstaller_icon"] = ui,
         !["main_executable"] = me] :
       a \in BOOLEAN, p \in BOOLEAN, sm \in BOOLEAN, dt \in BOOLEAN, sl \in BOOLEAN,
       lic \in {EMPTY, LicensePath}, ii \in {EMPTY, InstallerIcon},
       ui \in {EMPTY, UninstallerIcon}, me \in {None, MainExe}}

\* the lists of at most MaxLangs languages
LangLists == UNION {[1..n -> Languages] : n \in 0..MaxLangs}

\* every language list, and no list at all
LanguageRecords ==
    {[BaseRecord EXCEPT !["selected_languages"] = ls, !["request_admin"] = a] :
       ls \in LangLists, a \in BOOLEAN}
    \cup {Drop(BaseRecord, "selected_languages")}

\* every compression directive
CompressionRecords ==
    {[BaseRecord EXCEPT !["compression"] = m, !["solid_compression"] = sc,
                        !["request_admin"] = a] :
       m \in Methods, sc \in BOOLEAN, a \in BOOLEAN}

\* records without the keys the renderer has defaults for
DefaultedRecords ==
    {[k \in AllKeys \ gone |-> WithShortcuts([BaseRecord EXCEPT
                                   !["request_admin"] = a, !["prefer_64bit"] = p], sm, dt)[k]] :
       gone \in SUBSET (DefaultedFlags \cup {"main_executable"}),
       a \in BOOLEAN, p \in BOOLEAN, sm \in BOOLEAN, dt \in BOOLEAN}

\* records that lack one key a template value comes from
IncompleteRecords ==
    {Drop([WithShortcuts(BaseRecord, sm, TRUE) EXCEPT
              !["installer_icon"] = ii, !["uninstaller_icon"] = ui], k) :
       k \in RequiredKeys, sm \in BOOLEAN, ii \in {EMPTY, InstallerIcon},
       ui \in {EMPTY, RelativeIcon}}

\* records whose page flags and paths the file dialogs would not produce
OtherRecords ==
    {[BaseRecord EXCEPT !["show_welcome_page"] = w, !["show_directory_page"] = d,
                        !["show_finish_page"] = f, !["uninstaller_icon"] = ui,
                        !["source_dir"] = sd] :
       w \in BOOLEAN, d \in BOOLEAN, f \in BOOLEAN, ui \in {EMPTY, RelativeIcon},
       sd \in {<<"C:", "\\", "src">>, <<"C:", "/", "src", "/", "dist">>}}

Records ==
    CoreRecords \cup LanguageRecords \cup CompressionRecords \cup DefaultedRecords
    \cup IncompleteRecords \cup OtherRecords

\* the files a record names
PathsOf(c) ==
    {Get(c, k, EMPTY) : k \in {"license_file", "installer_icon", "uninstaller_icon"}} \ {EMPTY}

\* the process has not called sys.exit
NoExit == 0 - 1

\* line 667 is reached: the prompts are over and the process still runs
CollectorDone ==
    /\ pc = "render"
    /\ call = None
    /\ typed = << >>
    /\ returned = None
    /\ selected_languages = << >>
    /\ exit_code = NoExit

-----------------------------------------------------------------------------
(* The state machine: a record is handed to the renderer, twice at most,    *)
(* while the clock advances and files disappear                             *)

Init ==
    /\ config \in Records
    /\ fs = PathsOf(config)
    /\ clock = 0
    /\ calls = << >>
    /\ CollectorDone

\* line 667: nsis_script_content = generate_nsis_script_from_config(config)
Render ==
    /\ Len(calls) < 2
    /\ calls' = Append(calls, [cfg   |-> config,
                               files |-> fs,
                               now   |-> clock,
                               out   |-> generate_nsis_script_from_config(config, fs, clock),
                               printed |-> language_prints(config),
                               after |-> config_after(config, fs)])
    /\ config' = config_after(config, fs)
    /\ UNCHANGED <<fs, clock>>
    /\ UNCHANGED collector

\* time passes
Tick ==
    /\ Len(calls) < 2
    /\ clock < MaxClock
    /\ clock' = clock + 1
    /\ UNCHANGED <<config, fs, calls>>
    /\ UNCHANGED collector

\* a file the record names is deleted
RemoveFile(f) ==
    /\ Len(calls) < 2
    /\ f \in fs
    /\ fs' = fs \ {f}
    /\ UNCHANGED <<config, clock, calls>>
    /\ UNCHANGED collector

Next == Render \/ Tick \/ \E f \in fs : RemoveFile(f)

Spec == Init /\ [][Next]_vars

-----------------------------------------------------------------------------
(* The Collector: the prompt helpers of lines 17-219.  What the user types *)
(* is modelled character by character: a line is a sequence of            *)
(* one-character strings, without the newline input() takes off.          *)

MaxTyped == 3

Lowers == <<"a", "b", "c", "d", "e", "f", "g", "h", "i", "j", "k", "l", "m",
            "n", "o", "p", "q", "r", "s", "t", "u", "v", "w", "x", "y", "z">>
Uppers == <<"A", "B", "C", "D", "E", "F", "G", "H", "I", "J", "K", "L", "M",
            "N", "O", "P", "Q", "R", "S", "T", "U", "V", "W", "X", "Y", "Z">>
Digits == <<"0", "1", "2", "3", "4", "5", "6", "7", "8", "9">>

\* the position of ch in table, 0 when it is not there
IndexIn(table, ch) ==
    IF \E i \in 1..Len(table) : table[i] = ch
    THEN CHOOSE i \in 1..Len(table) : table[i] = ch
    ELSE 0

\* str.lower() and str.upper() of one character
LowerChar(ch) == IF IndexIn(Uppers, ch) > 0 THEN Lowers[IndexIn(Uppers, ch)] ELSE ch
UpperChar(ch) == IF IndexIn(Lowers, ch) > 0 THEN Uppers[IndexIn(Lowers, ch)] ELSE ch

\* str.lower() of a line
LowerLine(s) == [i \in 1..Len(s) |-> LowerChar(s[i])]

IsSpace(ch) == ch \in {" ", "\t"}
IsDigit(ch) == IndexIn(Digits, ch) > 0

\* str.strip(): the white space at both ends is taken off
RECURSIVE LStrip(_)
LStrip(s) == IF s # << >> /\ IsSpace(Head(s)) THEN LStrip(Tail(s)) ELSE s

RECURSIVE RStrip(_)
RStrip(s) ==
    IF s # << >> /\ IsSpace(s[Len(s)]) THEN RStrip(SubSeq(s, 1, Len(s) - 1)) ELSE s

Strip(s) == RStrip(LStrip(s))

\* str.capitalize(): the first character in upper case, the others in lower case
Capitalize(s) ==
    IF s = << >> THEN << >>
    ELSE <<UpperChar(s[1])>> \o [i \in 1..(Len(s) - 1) |-> LowerChar(s[i + 1])]

\* what input() can do other than deliver a line
EOFError == <<"<EOFError>">>
KeyboardInterrupt == <<"<KeyboardInterrupt>">>

\* how one pass through the loop of a helper ends: the helper returns value,
\* asks again, calls sys.exit(value), or lets an exception out
Return(v) == [kind |-> "return", value |-> v]
Again     == [kind |-> "again",  value |-> None]
Exit(n)   == [kind |-> "exit",   value |-> n]
Escapes(exc) == [kind |-> "raise", value |-> exc]

\* lines 35-42, 98-105, 124-131, 165-172, 212-219: the two handlers every
\* helper has
Aborted(ev) == ev \in {EOFError, KeyboardInterrupt}

\* lines 24-42: one pass through the loop of ask_string
ask_string(ev, default, allow_empty) ==
    IF Aborted(ev) THEN Exit(1)
    ELSE LET user_input == Strip(ev) IN
         IF user_input # << >> THEN Return(user_input)
         ELSE IF default # None THEN Return(default)
         ELSE IF allow_empty THEN Return(EMPTY)
         ELSE Again

\* ask_bool with a fault: an answer that is neither yes nor no is taken for
\* the default
ask_bool_lenient(ev, default) ==
    IF Aborted(ev) THEN Exit(1)
    ELSE LET user_input == LowerLine(Strip(ev)) IN
         IF user_input \in {<<"n">>, <<"n", "o">>} THEN Return(FALSE)
         ELSE IF user_input \in {<<"y">>, <<"y", "e", "s">>} THEN Return(TRUE)
         ELSE Return(default)

\* lines 114-131: one pass through the loop of ask_bool
ask_bool(ev, default) ==
    IF Aborted(ev) THEN Exit(1)
    ELSE LET user_input == LowerLine(Strip(ev)) IN
         IF user_input = << >> THEN Return(default)
         ELSE IF user_input \in {<<"y">>, <<"y", "e", "s">>} THEN Return(TRUE)
         ELSE IF user_input \in {<<"n">>, <<"n", "o">>} THEN Return(FALSE)
         ELSE Again

\* the number a sequence of decimal digits writes
RECURSIVE DigitsValue(_)
DigitsValue(ds) ==
    IF ds = << >> THEN 0
    ELSE 10 * DigitsValue(SubSeq(ds, 1, Len(ds) - 1)) + (IndexIn(Digits, ds[Len(ds)]) - 1)

\* int(user_input) of line 157: an optional sign and decimal digits give a
\* number, any other text a ValueError (ok is FALSE).  The lines drawn have
\* no underscore between digits, which int() would accept as well.
ParseInt(s) ==
    LET signed == s # << >> /\ s[1] \in {"+", "-"}
        ds == IF signed THEN Tail(s) ELSE s
    IN  IF ds # << >> /\ \A i \in 1..Len(ds) : IsDigit(ds[i])
        THEN [ok |-> TRUE,
              n |-> IF signed /\ s[1] = "-" THEN 0 - DigitsValue(ds) ELSE DigitsValue(ds)]
        ELSE [ok |-> FALSE, n |-> 0]

\* lines 140-145: options.index(default), -1 when default is not an option
default_index(options, default) ==
    IF \E i \in 1..Len(options) : options[i] = default
    THEN (CHOOSE i \in 1..Len(options) :
              options[i] = default /\ \A j \in 1..(i - 1) : options[j] # default) - 1
    ELSE 0 - 1

\* lines 147-172: one pass through the loop of ask_choice; the ValueError of
\* int() is caught at line 163.  A Python index i is position i + 1 here.
ask_choice(ev, options, default) ==
    IF Aborted(ev) THEN Exit(1)
    ELSE LET user_input == Strip(ev) IN
         IF user_input = << >> /\ default_index(options, default) # 0 - 1
         THEN Return(options[default_index(options, default) + 1])
         ELSE IF user_input = << >> THEN Again
         ELSE IF ~ParseInt(user_input).ok THEN Again
         ELSE LET choice_index == ParseInt(user_input).n - 1 IN
              IF 0 <= choice_index /\ choice_index < Len(options)
              THEN Return(options[choice_index + 1])
              ELSE Again

\* the fields of s between its dots
RECURSIVE Fields(_)
Fields(s) ==
    IF \A i \in 1..Len(s) : s[i] # "."
    THEN <<s>>
    ELSE LET d == CHOOSE i \in 1..Len(s) : s[i] = "." /\ \A j \in 1..(i - 1) : s[j] # "."
         IN  <<SubSeq(s, 1, d - 1)>> \o Fields(SubSeq(s, d + 1, Len(s)))

\* re.match(r'^\d+\.\d+\.\d+\.\d+$', s), for s without a newline
MatchesVersion(s) ==
    /\ Len(Fields(s)) = 4
    /\ \A f \in 1..4 :
          /\ Fields(s)[f] # << >>
          /\ \A i \in 1..Len(Fields(s)[f]) : IsDigit(Fields(s)[f][i])

\* validate_product_version with a fault: the default is returned without
\* being matched against the format
validate_product_version_unchecked(ev, default, allow_empty) ==
    IF Aborted(ev) THEN Exit(1)
    ELSE LET user_input == Strip(ev) IN
         IF user_input # << >> /\ ~MatchesVersion(user_input) THEN Again
         ELSE IF user_input # << >> THEN Return(user_input)
         ELSE IF default # None THEN Return(default)
         ELSE IF allow_empty THEN Return(EMPTY)
         ELSE Again

\* lines 185-219: one pass through the loop of validate_product_version.
\* app_version only changes what is printed.
validate_product_version(ev, default, allow_empty) ==
    IF Aborted(ev) THEN Exit(1)
    ELSE LET user_input == Strip(ev) IN
         IF user_input # << >> /\ ~MatchesVersion(user_input) THEN Again
         ELSE IF user_input # << >> THEN Return(user_input)
         ELSE IF default # None
         THEN IF ~MatchesVersion(default) THEN Again ELSE Return(default)
         ELSE IF allow_empty THEN Return(EMPTY)
         ELSE Again

\* the components of a path between its separators; os.path.normpath on
\* Windows takes / for \ as well
RECURSIVE Components(_)
Components(s) ==
    IF \A i \in 1..Len(s) : s[i] \notin {"/", "\\"}
    THEN <<s>>
    ELSE LET d == CHOOSE i \in 1..Len(s) :
                      s[i] \in {"/", "\\"} /\ \A j \in 1..(i - 1) : s[j] \notin {"/", "\\"}
         IN  <<SubSeq(s, 1, d - 1)>> \o Components(SubSeq(s, d + 1, Len(s)))

\* the components normpath keeps: empty ones and . are dropped, .. takes the
\* component before it away (at the root it is dropped)
RECURSIVE Resolve(_, _, _)
Resolve(comps, kept, rooted) ==
    IF comps = << >> THEN kept
    ELSE LET c == Head(comps) IN
         IF c = << >> \/ c = <<".">> THEN Resolve(Tail(comps), kept, rooted)
         ELSE IF c = <<".", ".">>
         THEN IF kept # << >> /\ kept[Len(kept)] # <<".", ".">>
              THEN Resolve(Tail(comps), SubSeq(kept, 1, Len(kept) - 1), rooted)
              ELSE IF rooted THEN Resolve(Tail(comps), kept, rooted)
              ELSE Resolve(Tail(comps), Append(kept, c), rooted)
         ELSE Resolve(Tail(comps), Append(kept, c), rooted)

RECURSIVE JoinPath(_)
JoinPath(comps) ==
    IF comps = << >> THEN << >>
    ELSE IF Len(comps) = 1 THEN comps[1]
    ELSE comps[1] \o <<"\\">> \o JoinPath(Tail(comps))

\* line 70: os.path.normpath of a non-empty path without a drive letter.  It
\* raises no ValueError on a str, so the handler of lines 71-73 never runs.
normpath(path) ==
    LET rooted == path[1] \in {"/", "\\"}
        body == JoinPath(Resolve(Components(path), << >>, rooted))
    IN  IF rooted THEN <<"\\">> \o body
        ELSE IF body = << >> THEN <<".">>
        ELSE body

\* the paths that are directories when they exist; any other path is a file
Directories == {<<"a">>}

\* os.path.isdir and os.path.isfile
IsDirectory(path, files) == path \in files /\ path \in Directories
IsFile(path, files) == path \in files /\ path \notin Directories

\* lines 58-105: one pass through the loop of ask_path
ask_path(ev, default, check_exists, is_dir, allow_empty, files) ==
    IF Aborted(ev) THEN Exit(1)
    ELSE LET user_input == Strip(ev)
             path0 == IF user_input # << >> THEN user_input ELSE default
         IN  IF ~Truthy(path0) THEN (IF allow_empty THEN Return(EMPTY) ELSE Again)
             ELSE LET path == normpath(path0)
                      exists == Exists(path, files)
                      is_correct_type ==
                          IF exists /\ is_dir THEN IsDirectory(path, files)
                          ELSE IF exists THEN IsFile(path, files)
                          ELSE TRUE
                  IN  IF Truthy(check_exists) /\ ~exists /\ check_exists = <<"require">>
                      THEN Again
                      ELSE IF Truthy(check_exists) /\ exists /\ ~is_correct_type
                              /\ check_exists = <<"require">>
                      THEN Again
                      ELSE Return(path)

-----------------------------------------------------------------------------
(* The language prompts of lines 615-646 *)

MaxLanguageLines == 4

English == <<"E", "n", "g", "l", "i", "s", "h">>

\* a call of a prompt helper: the function, its arguments, and the key of
\* config the value is assigned to ("" when it is assigned to none).  The
\* default of ask_bool, a bool, is default_bool; the default of the other
\* helpers, a str or None, is default.
HelperCall(fn, default, default_bool, allow_empty, check_exists, is_dir, options, key) ==
    [fn |-> fn, default |-> default, default_bool |-> default_bool, allow_empty |-> allow_empty,
     check_exists |-> check_exists, is_dir |-> is_dir, options |-> options, key |-> key]

\* line 621 and lines 631-634
AskPrimaryLanguage == HelperCall("ask_string", English, FALSE, FALSE, None, FALSE, << >>, "")
AskNextLanguage    == HelperCall("ask_string", None, FALSE, TRUE, None, FALSE, << >>, "")

\* what the user may type at a language prompt
LanguageLines ==
    {<< >>, <<" ">>, <<"f", "r">>, <<"F", "R">>, <<" ", "f", "R", " ">>, <<"d", "e">>,
     <<"e", "n", "g", "l", "i", "s", "h">>, <<"E", "N", "G", "L", "I", "S", "H">>}

\* the keys of config assigned before line 612
KeysBeforeLanguages ==
    AllKeys \ {"selected_languages", "branding", "show_welcome_page", "show_license_page",
               "show_directory_page", "show_finish_page"}

\* add_language with a fault: the language is appended without looking for it
\* in the list
add_language_unchecked(selected, next_lang) == Append(selected, next_lang)

\* lines 637-643
add_language(selected, next_lang) ==
    IF \A i \in 1..Len(selected) : selected[i] # next_lang
    THEN Append(selected, next_lang)
    ELSE selected

\* line 615, the dictionary holding what lines 465-610 assigned
InitLanguages ==
    /\ config = [k \in KeysBeforeLanguages |-> BaseRecord[k]]
    /\ fs = {}
    /\ clock = 0
    /\ calls = << >>
    /\ pc = "primary_lang"
    /\ call = AskPrimaryLanguage
    /\ typed = << >>
    /\ returned = None
    /\ selected_languages = << >>
    /\ exit_code = NoExit

\* lines 620-626: the loop asking for the primary language
PrimaryLanguage(ev) ==
    /\ pc = "primary_lang"
    /\ Len(typed) < MaxLanguageLines
    /\ typed' = Append(typed, ev)
    /\ LET r == ask_string(ev, call.default, call.allow_empty) IN
       CASE r.kind = "exit" ->
              /\ pc' = "exit" /\ exit_code' = r.value
              /\ UNCHANGED <<call, returned, selected_languages>>
         [] r.kind = "again" ->
              UNCHANGED <<pc, call, returned, selected_languages, exit_code>>
         [] r.kind = "return" ->
              LET primary_lang == Capitalize(r.value) IN
              /\ returned' = r.value
              /\ IF primary_lang # << >>
                 THEN /\ selected_languages' = Append(selected_languages, primary_lang)
                      /\ pc' = "next_lang"
                      /\ call' = AskNextLanguage
                 ELSE UNCHANGED <<selected_languages, pc, call>>
              /\ UNCHANGED exit_code
    /\ UNCHANGED <<config, fs, clock, calls>>

\* lines 629-644: the loop asking for further languages
NextLanguage(ev) ==
    /\ pc = "next_lang"
    /\ Len(typed) < MaxLanguageLines
    /\ typed' = Append(typed, ev)
    /\ LET r == ask_string(ev, call.default, call.allow_empty) IN
       CASE r.kind = "exit" ->
              /\ pc' = "exit" /\ exit_code' = r.value
              /\ UNCHANGED <<call, returned, selected_languages>>
         [] r.kind = "again" ->
              UNCHANGED <<pc, call, returned, selected_languages, exit_code>>
         [] r.kind = "return" ->
              LET next_lang == Capitalize(r.value) IN
              /\ returned' = r.value
              /\ IF next_lang = << >>
                 THEN pc' = "store" /\ UNCHANGED selected_languages
                 ELSE /\ selected_languages' = add_language(selected_languages, next_lang)
                      /\ UNCHANGED pc
              /\ UNCHANGED <<call, exit_code>>
    /\ UNCHANGED <<config, fs, clock, calls>>

\* line 646
StoreLanguages ==
    /\ pc = "store"
    /\ config' = Put(config, "selected_languages", selected_languages)
    /\ pc' = "stored"
    /\ UNCHANGED <<fs, clock, calls, call, typed, returned, selected_languages, exit_code>>

NextLanguages ==
    \/ \E ev \in LanguageLines \cup {EOFError, KeyboardInterrupt} : PrimaryLanguage(ev)
    \/ \E ev \in LanguageLines \cup {EOFError, KeyboardInterrupt} : NextLanguage(ev)
    \/ StoreLanguages

SpecLanguages == InitLanguages /\ [][NextLanguages]_vars

-----------------------------------------------------------------------------
(* One call of a prompt helper, and the assignment of its value *)

Version1000 == <<"1", ".", "0", ".", "0", ".", "0">>

\* line 576
CompressionOptions == << <<"l", "z", "m", "a">>, <<"z", "l", "i", "b">>,
                         <<"b", "z", "i", "p", "2">> >>

\* the calls of lines 471-475, 477, 569 and 574-578
ProgramCalls ==
    {HelperCall("validate_product_version", Version1000, FALSE, FALSE, None, FALSE, << >>,
                "product_version"),
     HelperCall("ask_string", EMPTY, FALSE, FALSE, None, FALSE, << >>, "website"),
     HelperCall("ask_bool", None, TRUE, FALSE, None, FALSE, << >>, "request_admin"),
     HelperCall("ask_choice", CompressionOptions[1], FALSE, FALSE, None, FALSE,
                CompressionOptions,
                "compression")}

\* calls with the arguments the signatures allow
HelperCalls ==
    {HelperCall("ask_string", d, FALSE, ae, None, FALSE, << >>, "") :
        d \in {None, EMPTY, <<"v">>}, ae \in BOOLEAN}
    \cup {HelperCall("ask_path", d, FALSE, ae, ce, dir, << >>, "") :
        d \in {None, EMPTY, <<"a">>, <<"c">>}, ae \in BOOLEAN,
        ce \in {None, <<"warn">>, <<"require">>}, dir \in BOOLEAN}
    \cup {HelperCall("ask_bool", None, d, FALSE, None, FALSE, << >>, "") : d \in BOOLEAN}
    \cup {HelperCall("ask_choice", d, FALSE, FALSE, None, FALSE, o, "") :
        d \in {None, <<"z", "l", "i", "b">>, <<"r", "a", "r">>},
        o \in {<< >>, CompressionOptions}}
    \cup {HelperCall("validate_product_version", d, FALSE, ae, None, FALSE, << >>, "") :
        d \in {None, EMPTY, Version1000, <<"1", ".", "0">>}, ae \in BOOLEAN}
    \cup ProgramCalls

\* the paths there may be on disk: the directory a and the file b
PromptPaths == {<<"a">>, <<"b">>}

\* what the user may type at the prompt of each helper
PromptLines(fn) ==
    CASE fn = "ask_string" ->
           {<< >>, <<" ", " ">>, <<"w">>, <<" ", "w", " ", "x", " ">>}
      [] fn = "ask_path" ->
           {<< >>, <<" ">>, <<"a">>, <<"a", "/">>, <<"a", "\\", ".", "\\">>, <<"b">>,
            <<"a", "/", ".", ".", "/", "b">>, <<"c">>}
      [] fn = "ask_bool" ->
           {<< >>, <<"y">>, <<" ", "Y", "E", "S", " ">>, <<"n">>, <<"N", "o">>,
            <<"m", "a", "y", "b", "e">>, <<"1">>}
      [] fn = "ask_choice" ->
           {<< >>, <<"1">>, <<"3">>, <<"4">>, <<"0">>, <<"-", "1">>, <<"x">>,
            <<" ", "2", " ">>, <<"+", "2">>, <<"1", "0">>}
      [] fn = "validate_product_version" ->
           {<< >>, <<" ">>, <<"1", "2", ".", "0", ".", "3", ".", "4">>, <<"1", ".", "0", ".", "0">>,
            <<"1", ".", "0", ".", "0", ".", "x">>, <<"1", ".", ".", "0", ".", "0">>,
            <<"1", ".", "0", ".", "0", ".", "0", ".", "0">>,
            <<" ", "2", ".", "0", ".", "0", ".", "1", " ">>, <<"-", "1", ".", "0", ".", "0", ".", "0">>}

\* one pass through the loop of the helper called
helper_pass(c, ev, files) ==
    CASE c.fn = "ask_string" -> ask_string(ev, c.default, c.allow_empty)
      [] c.fn = "ask_path" ->
           ask_path(ev, c.default, c.check_exists, c.is_dir, c.allow_empty, files)
      [] c.fn = "ask_bool" -> ask_bool(ev, c.default_bool)
      [] c.fn = "ask_choice" -> ask_choice(ev, c.options, c.default)
      [] c.fn = "validate_product_version" ->
           validate_product_version(ev, c.default, c.allow_empty)

\* a helper is called; config holds nothing the helper reads
InitPrompts ==
    /\ call \in HelperCalls
    /\ fs \in (IF call.fn = "ask_path" THEN SUBSET PromptPaths ELSE {{}})
    /\ config = << >>
    /\ clock = 0
    /\ calls = << >>
    /\ pc = "input"
    /\ typed = << >>
    /\ returned = None
    /\ selected_languages = << >>
    /\ exit_code = NoExit

\* input() delivers a line or raises, and the helper makes one pass through
\* its loop
Prompt(ev) ==
    /\ pc = "input"
    /\ Len(typed) < MaxTyped
    /\ typed' = Append(typed, ev)
    /\ LET r == helper_pass(call, ev, fs) IN
       CASE r.kind = "return" ->
              pc' = "returned" /\ returned' = r.value /\ UNCHANGED exit_code
         [] r.kind = "again" ->
              UNCHANGED <<pc, returned, exit_code>>
         [] r.kind = "exit" ->
              pc' = "exit" /\ exit_code' = r.value /\ UNCHANGED returned
         [] r.kind = "raise" ->
              pc' = "raised" /\ UNCHANGED <<returned, exit_code>>
    /\ UNCHANGED <<config, fs, clock, calls, call, selected_languages>>

\* config[key] = helper(...)
Assign ==
    /\ pc = "returned"
    /\ call.key # ""
    /\ config' = Put(config, call.key, returned)
    /\ pc' = "assigned"
    /\ UNCHANGED <<fs, clock, calls, call, typed, returned, selected_languages, exit_code>>

NextPrompts ==
    \/ \E ev \in PromptLines(call.fn) \cup {EOFError, KeyboardInterrupt} : Prompt(ev)
    \/ Assign

SpecPrompts == InitPrompts /\ [][NextPrompts]_vars

-----------------------------------------------------------------------------
(* Reading a generated script *)

\* the invocations that returned script text
Rendered == {i \in 1..Len(calls) : calls[i].out.kind = "script"}

\* the line starts with the literal piece a
StartsWith(line, a) == line # EMPTY /\ line[1] = a

\* sub occurs in line
Contains(line, sub) ==
    \E i \in 1..(Len(line) - Len(sub) + 1) : SubSeq(line, i, i + Len(sub) - 1) = sub

\* the positions of the lines that start with a
LinesWith(lines, a) == {i \in 1..Len(lines) : StartsWith(lines[i], a)}

\* the lines strictly between the first line `from` and the first line `to` after it
Between(lines, from, to) ==
    LET a == CHOOSE i \in 1..Len(lines) :
                 lines[i] = from /\ \A j \in 1..(i - 1) : lines[j] # from
        b == CHOOSE i \in (a + 1)..Len(lines) :
                 lines[i] = to /\ \A j \in (a + 1)..(i - 1) : lines[j] # to
    IN  SubSeq(lines, a + 1, b - 1)

\* the shortcut block of the install section and of the uninstall section
InstallBlock(lines) == Between(lines, <<"  ; --- Shortcuts ---">>, <<"SectionEnd">>)
UninstallBlock(lines) ==
    Between(lines, <<"  ; --- Remove Shortcuts ---">>, <<"  ; --- Remove Files ---">>)

IsLanguageLine(line) == Contains(line, <<"!insertmacro MUI_LANGUAGE \"">>)

\* the languages of the MUI_LANGUAGE directives of a script, in script order
LanguagesOf(lines) ==
    LET ls == SelectSeq(lines, IsLanguageLine)
    IN  [i \in 1..Len(ls) |-> SubSeq(ls[i], 2, Len(ls[i]) - 1)]

NoDuplicates(seq) == \A i, j \in 1..Len(seq) : seq[i] = seq[j] => i = j

\* the pieces that open a registry statement
RegistryDirectives ==
    {"InstallDirRegKey ", "WriteRegStr ", "  WriteRegStr ", "  WriteRegDWORD ", "  DeleteRegKey "}

IsRegistryLine(line) == \E i \in 1..Len(line) : line[i] \in RegistryDirectives

\* the hive a registry statement names: the piece after the directive
HiveOf(line) ==
    line[1 + CHOOSE i \in 1..Len(line) : line[i] \in RegistryDirectives]

IsShortcutDirective(line) ==
    StartsWith(line, "  CreateShortCut \"") \/ StartsWith(line, "  Delete \"")

\* a record as the prompts and dialogs of lines 465-661 build it, with the
\* icons it names on disk
CollectorRecord(c, files) ==
    /\ DOMAIN c = AllKeys
    /\ c["request_admin"] \in BOOLEAN /\ c["prefer_64bit"] \in BOOLEAN
    /\ (c["prefer_64bit"] => c["request_admin"])
    /\ c["compression"] \in Methods
    /\ c["selected_languages"] # << >> /\ NoDuplicates(c["selected_languages"])
    /\ (c["show_license_page"] => c["license_file"] # EMPTY)
    /\ (c["start_menu_folder"] = EMPTY <=> ~c["create_startmenu_shortcut"])
    /\ \A k \in {"installer_icon", "uninstaller_icon"} :
          c[k] = EMPTY \/ (c[k][1] = "C:" /\ Exists(c[k], files))
    /\ c["source_dir"] = <<"C:", "\\", "src">>

-----------------------------------------------------------------------------
(* C1 *)

\* C1: for every record the Collector can hand over (all fields present, the
\* main executable a file name or None, each icon unset or an existing file)
\* the renderer returns non-empty script text: it neither returns None nor
\* raises.
C1_CollectorRecordRenders ==
    \A i \in 1..Len(calls) :
        CollectorRecord(calls[i].cfg, calls[i].files)
        => calls[i].out.kind = "script" /\ calls[i].out.lines # << >>

-----------------------------------------------------------------------------
(* C2 *)

\* C2: when the language list is non-empty and duplicate-free, the script has
\* exactly one MUI_LANGUAGE directive per entry and no others, in list order.
C2_LanguageDirectives ==
    \A i \in Rendered :
        LET c == calls[i].cfg IN
        ("selected_languages" \in DOMAIN c /\ c["selected_languages"] # << >>
            /\ NoDuplicates(c["selected_languages"]))
        => LanguagesOf(calls[i].out.lines) = c["selected_languages"]

C2_Witness ==
    \E i \in Rendered :
        /\ "selected_languages" \in DOMAIN calls[i].cfg
        /\ Len(calls[i].cfg["selected_languages"]) >= 2
        /\ NoDuplicates(calls[i].cfg["selected_languages"])
        /\ calls[i].cfg["selected_languages"][1] # <<"English">>

-----------------------------------------------------------------------------
(* C3 *)

\* the install root named by the InstallDir line of a script
InstallRootOf(lines) ==
    lines[CHOOSE i \in 1..Len(lines) : StartsWith(lines[i], "InstallDir \"")][2]

\* C3: the install root of the InstallDir line is $PROGRAMFILES64 when
\* elevated and prefer-64-bit, $PROGRAMFILES when elevated and not
\* prefer-64-bit, and $LOCALAPPDATA when not elevated, whatever prefer-64-bit is.
C3_InstallRoot ==
    \A i \in Rendered :
        LET c == calls[i].cfg IN
        DefaultedFlags \subseteq DOMAIN c
        => /\ Cardinality(LinesWith(calls[i].out.lines, "InstallDir \"")) = 1
           /\ InstallRootOf(calls[i].out.lines) =
                 (IF c["request_admin"] /\ c["prefer_64bit"] THEN "$PROGRAMFILES64"
                  ELSE IF c["request_admin"] THEN "$PROGRAMFILES"
                  ELSE "$LOCALAPPDATA")

C3_Witness ==
    \E i \in Rendered :
        /\ DefaultedFlags \subseteq DOMAIN calls[i].cfg
        /\ ~calls[i].cfg["request_admin"] /\ calls[i].cfg["prefer_64bit"]
        /\ InstallRootOf(calls[i].out.lines) = "$LOCALAPPDATA"

-----------------------------------------------------------------------------
(* C4 *)

\* the registry statements of a script
RegistryLines(lines) == {i \in 1..Len(lines) : IsRegistryLine(lines[i])}

\* C4: every registry statement of one script (InstallDirRegKey, the
\* install-path WriteRegStr, the uninstall WriteRegStr and WriteRegDWORD
\* lines, the DisplayIcon entry, both DeleteRegKey lines: thirteen in all)
\* names the same hive, HKLM when the install is elevated and HKCU when not.
C4_OneHive ==
    \A i \in Rendered :
        LET c == calls[i].cfg
            lines == calls[i].out.lines
        IN  /\ Cardinality(RegistryLines(lines)) = 13
            /\ \A j, k \in RegistryLines(lines) : HiveOf(lines[j]) = HiveOf(lines[k])
            /\ "request_admin" \in DOMAIN c
               => \A j \in RegistryLines(lines) :
                     HiveOf(lines[j]) = IF c["request_admin"] THEN "HKLM" ELSE "HKCU"

C4_Witness ==
    \E i \in Rendered :
        /\ "request_admin" \in DOMAIN calls[i].cfg
        /\ ~calls[i].cfg["request_admin"]
        /\ Truthy(uninst_icon_path_reg(calls[i].cfg, calls[i].files))
        /\ \E j \in RegistryLines(calls[i].out.lines) :
              /\ Contains(calls[i].out.lines[j], <<"\" \"DisplayIcon\" \"">>)
              /\ HiveOf(calls[i].out.lines[j]) = "HKCU"

-----------------------------------------------------------------------------
(* C5 *)

NoShortcutsLine == <<"  ; No shortcuts configured">>

\* both shortcut flags are present and false
NoShortcutsWanted(c) ==
    /\ {"create_startmenu_shortcut", "create_desktop_shortcut"} \subseteq DOMAIN c
    /\ ~c["create_startmenu_shortcut"] /\ ~c["create_desktop_shortcut"]

\* C5 as stated: with both shortcut flags false, elevated or not, the install
\* and the uninstall shortcut block are each the placeholder line alone.
C5_PlaceholderOnly ==
    \A i \in Rendered :
        NoShortcutsWanted(calls[i].cfg)
        => /\ InstallBlock(calls[i].out.lines) = <<NoShortcutsLine>>
           /\ UninstallBlock(calls[i].out.lines) = <<NoShortcutsLine>>

\* C5 as amended: with both shortcut flags false neither block has a
\* CreateShortCut or Delete directive; when the install is not elevated each
\* block is the placeholder line alone, and when it is elevated each block is
\* its SetShellVarContext all line alone, without the placeholder.
C5_NoShortcutDirectives ==
    \A i \in Rendered :
        LET c == calls[i].cfg
            inst == InstallBlock(calls[i].out.lines)
            unin == UninstallBlock(calls[i].out.lines)
        IN  NoShortcutsWanted(c)
            => /\ \A j \in 1..Len(inst) : ~IsShortcutDirective(inst[j])
               /\ \A j \in 1..Len(unin) : ~IsShortcutDirective(unin[j])
               /\ IF Get(c, "request_admin", TRUE)
                  THEN /\ inst = << <<"  SetShellVarContext all ; Install for all users">> >>
                       /\ unin = << <<"  SetShellVarContext all ; Remove for all users">> >>
                  ELSE inst = <<NoShortcutsLine>> /\ unin = <<NoShortcutsLine>>

C5_Witness ==
    \E i \in Rendered :
        /\ NoShortcutsWanted(calls[i].cfg)
        /\ "request_admin" \in DOMAIN calls[i].cfg /\ calls[i].cfg["request_admin"]
        /\ InstallBlock(calls[i].out.lines) # <<NoShortcutsLine>>

-----------------------------------------------------------------------------
(* C6 *)

LicenseDirective == "!insertmacro MUI_PAGE_LICENSE \""
LicenseDisabledLine == <<"; License page disabled or no file specified/found">>

\* the line in the license slot of the pages block: the second after the header
LicenseSlot(lines) ==
    lines[2 + CHOOSE i \in 1..Len(lines) : lines[i] = <<"; --- Pages ---">>]

\* the flag is true, the path is non-empty and the file is on disk
LicenseShown(c, files) ==
    /\ Get(c, "show_license_page", FALSE)
    /\ Truthy(Get(c, "license_file", None))
    /\ Exists(c["license_file"], files)

\* C6: the license page directive, with the license path, is in the script
\* only when the flag is true, the path is non-empty and the file exists at
\* render time; otherwise the slot holds the placeholder comment and the
\* license path is nowhere in the script.
C6_LicensePage ==
    \A i \in Rendered :
        LET c == calls[i].cfg
            lines == calls[i].out.lines
        IN  IF LicenseShown(c, calls[i].files)
            THEN /\ LicenseSlot(lines) = <<LicenseDirective>> \o c["license_file"] \o <<"\"">>
                 /\ Cardinality(LinesWith(lines, LicenseDirective)) = 1
            ELSE /\ LicenseSlot(lines) = LicenseDisabledLine
                 /\ LinesWith(lines, LicenseDirective) = {}
                 /\ Truthy(Get(c, "license_file", None))
                    => \A j \in 1..Len(lines) : ~Contains(lines[j], c["license_file"])

C6_Witness ==
    \E i \in Rendered :
        /\ Get(calls[i].cfg, "show_license_page", FALSE)
        /\ calls[i].cfg["license_file"] = LicensePath
        /\ ~Exists(LicensePath, calls[i].files)
        /\ LicenseSlot(calls[i].out.lines) = LicenseDisabledLine

-----------------------------------------------------------------------------
(* C7 *)

DisplayIconLines(lines) ==
    {i \in 1..Len(lines) : Contains(lines[i], <<"\" \"DisplayIcon\" \"">>)}

\* the value of a DisplayIcon entry: what follows the name, without the quote
DisplayIconValue(line) ==
    LET at == CHOOSE i \in 1..Len(line) : line[i] = "\" \"DisplayIcon\" \""
    IN  SubSeq(line, at + 1, Len(line) - 1)

\* C7: every complete record yields exactly one DisplayIcon entry, whose
\* value is the uninstaller icon's absolute path if that icon is set and
\* exists, else the installer icon's absolute path if that icon is set and
\* exists, else the main executable inside the install directory.
C7_DisplayIconPriority ==
    \A i \in 1..Len(calls) :
        LET c == calls[i].cfg
            files == calls[i].files
            lines == calls[i].out.lines
        IN  DOMAIN c = AllKeys
            => /\ calls[i].out.kind = "script"
               /\ Cardinality(DisplayIconLines(lines)) = 1
               /\ \A j \in DisplayIconLines(lines) :
                     DisplayIconValue(lines[j]) =
                        IF SetAndExists(c, "uninstaller_icon", files)
                        THEN Replace(AbsPath(c["uninstaller_icon"]), "\\", <<"\\", "\\">>)
                        ELSE IF SetAndExists(c, "installer_icon", files)
                        THEN Replace(AbsPath(c["installer_icon"]), "\\", <<"\\", "\\">>)
                        ELSE <<"$INSTDIR", "\\", "\\">> \o PyStr(c["main_executable"])

-----------------------------------------------------------------------------
(* C8 *)

\* C8 as stated: the renderer leaves the record it is given unchanged, for
\* every record, whether rendering succeeds or fails.
C8_RecordUnchanged ==
    \A i \in 1..Len(calls) : calls[i].after = calls[i].cfg

\* C8 as amended: the renderer leaves every field but show_license_page
\* unchanged; it leaves show_license_page unchanged too when the license file
\* is set and exists, and otherwise sets it to False (adding the key when the
\* record lacks it), whether rendering succeeds or fails.
C8_OnlyLicenseFlagWritten ==
    \A i \in 1..Len(calls) :
        LET c == calls[i].cfg
            d == calls[i].after
        IN  /\ DOMAIN d \ {"show_license_page"} = DOMAIN c \ {"show_license_page"}
            /\ \A k \in DOMAIN c \ {"show_license_page"} : d[k] = c[k]
            /\ IF SetAndExists(c, "license_file", calls[i].files)
               THEN d = c
               ELSE "show_license_page" \in DOMAIN d /\ ~d["show_license_page"]

C8_Witness ==
    \E i \in 1..Len(calls) :
        /\ calls[i].after # calls[i].cfg
        /\ calls[i].cfg["show_license_page"]
        /\ ~calls[i].after["show_license_page"]

-----------------------------------------------------------------------------
(* C9 *)

\* C9: when a field that feeds a template slot is absent from the record,
\* the renderer returns its failure result, which names a missing field; it
\* neither returns script text nor lets an exception escape.
C9_MissingFieldReported ==
    \A i \in 1..Len(calls) :
        RequiredKeys \ DOMAIN calls[i].cfg # {}
        => /\ calls[i].out.kind = "none"
           /\ \E k \in RequiredKeys \ DOMAIN calls[i].cfg : calls[i].out.error = <<k>>

-----------------------------------------------------------------------------
(* C10 *)

\* the lines of the template that carry a clock reading
IsClockLine(line) ==
    \/ StartsWith(line, "; (c) ")
    \/ StartsWith(line, "; Generated on: ")
    \/ StartsWith(line, "VIAddVersionKey \"LegalCopyright\" \"Copyright (c) ")

\* the record names the same files on disk at both invocations
SameFiles(a, b) == a.files \cap PathsOf(a.cfg) = b.files \cap PathsOf(b.cfg)

\* C10 as stated: two invocations on equal records return equal results,
\* whatever the clock and the filesystem are.
C10_ResultOfRecordAlone ==
    \A i, j \in 1..Len(calls) :
        calls[i].cfg = calls[j].cfg => calls[i].out = calls[j].out

\* C10 as amended: two invocations on equal records, with the files the
\* record names (license, icons) on disk alike at both, end the same way and
\* return scripts that differ at most in the three lines carrying the clock
\* reading (the copyright comment, the generation date, LegalCopyright).
C10_ResultOfRecordFilesClock ==
    \A i, j \in 1..Len(calls) :
        (calls[i].cfg = calls[j].cfg /\ SameFiles(calls[i], calls[j]))
        => /\ calls[i].out.kind = calls[j].out.kind
           /\ calls[i].out.error = calls[j].out.error
           /\ Len(calls[i].out.lines) = Len(calls[j].out.lines)
           /\ \A n \in 1..Len(calls[i].out.lines) :
                 \/ calls[i].out.lines[n] = calls[j].out.lines[n]
                 \/ IsClockLine(calls[i].out.lines[n]) /\ IsClockLine(calls[j].out.lines[n])

C10_Witness ==
    /\ Len(calls) = 2
    /\ calls[1].cfg = calls[2].cfg
    /\ SameFiles(calls[1], calls[2])
    /\ calls[1].now # calls[2].now
    /\ calls[1].out.kind = "script"
    /\ calls[1].out # calls[2].out

-----------------------------------------------------------------------------
(* C14 *)

\* the six compression directives
SixDirectives ==
    {<<"SetCompressor ", "lzma">>, <<"SetCompressor ", "/SOLID ", "lzma">>,
     <<"SetCompressor ", "zlib">>, <<"SetCompressor ", "/SOLID ", "zlib">>,
     <<"SetCompressor ", "bzip2">>, <<"SetCompressor ", "/SOLID ", "bzip2">>}

\* C14: a script rendered from a record whose method is one of lzma, zlib,
\* bzip2 (the options the Collector offers) has exactly one SetCompressor
\* line; it is 'SetCompressor ', then '/SOLID ' exactly when the solid flag is
\* true, then the method, and so one of six directives.
C14_CompressionDirective ==
    \A i \in Rendered :
        LET c == calls[i].cfg
            at == LinesWith(calls[i].out.lines, "SetCompressor ")
        IN  ({"compression", "solid_compression"} \subseteq DOMAIN c
                /\ c["compression"] \in Methods)
            => /\ Cardinality(at) = 1
               /\ \A n \in at :
                     /\ calls[i].out.lines[n] \in SixDirectives
                     /\ calls[i].out.lines[n][Len(calls[i].out.lines[n])] = c["compression"][1]
                     /\ (calls[i].out.lines[n][2] = "/SOLID " <=> c["solid_compression"])

C14_Witness ==
    \E i \in Rendered :
        /\ calls[i].cfg["compression"] = <<"zlib">>
        /\ ~calls[i].cfg["solid_compression"]
        /\ \E n \in 1..Len(calls[i].out.lines) :
              calls[i].out.lines[n] = <<"SetCompressor ", "zlib">>

-----------------------------------------------------------------------------
(* C15 *)

\* the link a CreateShortCut line creates: the pieces between the opening
\* quote and the quote that closes the first argument
LinkOfCreate(line) ==
    LET e == CHOOSE i \in 2..Len(line) :
                 line[i] = "\" \"" /\ \A j \in 2..(i - 1) : line[j] # "\" \""
    IN  SubSeq(line, 2, e - 1)

\* the link a Delete line removes
LinkOfDelete(line) == SubSeq(line, 2, Len(line) - 1)

\* the links the lines of a block create, and the links they delete
LinksCreated(block) ==
    {LinkOfCreate(block[n]) : n \in LinesWith(block, "  CreateShortCut \"")}
LinksDeleted(block) ==
    {LinkOfDelete(block[n]) : n \in LinesWith(block, "  Delete \"")}

IsStartMenuLink(link) == link[1] = "$SMPROGRAMS"
IsDesktopLink(link) == link[1] = "$DESKTOP"

\* the block has the all-users shell-context directive
AllUsersContext(block) ==
    \E n \in 1..Len(block) :
        block[n] \in {<<"  SetShellVarContext all ; Install for all users">>,
                      <<"  SetShellVarContext all ; Remove for all users">>}

\* the uninstall block attempts to remove the start-menu folder
RemovesFolder(block) == LinesWith(block, "  RMDir \"") # {}

\* C15: in every script the uninstall block deletes exactly the links the
\* install block creates, by the same link paths (one start-menu link when
\* the start-menu shortcut is wanted, one desktop link when the desktop
\* shortcut is wanted, one line each), removes the start-menu folder exactly
\* when the start-menu link is created, and the SetShellVarContext all
\* directive is in both blocks when request_admin is true and in neither
\* when it is false.
C15_ShortcutLockstep ==
    \A i \in Rendered :
        LET c == calls[i].cfg
            ins == InstallBlock(calls[i].out.lines)
            unins == UninstallBlock(calls[i].out.lines)
        IN  /\ LinksDeleted(unins) = LinksCreated(ins)
            /\ Cardinality(LinesWith(ins, "  CreateShortCut \"")) = Cardinality(LinksCreated(ins))
            /\ Cardinality(LinesWith(unins, "  Delete \"")) = Cardinality(LinksDeleted(unins))
            /\ LinksDeleted(ins) = {} /\ LinksCreated(unins) = {}
            /\ (RemovesFolder(unins) <=> \E l \in LinksCreated(ins) : IsStartMenuLink(l))
            /\ (AllUsersContext(ins) <=> AllUsersContext(unins))
            /\ ("create_startmenu_shortcut" \in DOMAIN c
                   => (c["create_startmenu_shortcut"]
                         <=> \E l \in LinksCreated(ins) : IsStartMenuLink(l)))
            /\ ("create_desktop_shortcut" \in DOMAIN c
                   => (c["create_desktop_shortcut"]
                         <=> \E l \in LinksCreated(ins) : IsDesktopLink(l)))
            /\ ("request_admin" \in DOMAIN c
                   => (c["request_admin"] <=> AllUsersContext(ins)))

C15_Witness ==
    \E i \in Rendered :
        LET ins == InstallBlock(calls[i].out.lines)
            unins == UninstallBlock(calls[i].out.lines)
        IN  /\ calls[i].cfg["create_startmenu_shortcut"]
            /\ ~calls[i].cfg["create_desktop_shortcut"]
            /\ "request_admin" \in DOMAIN calls[i].cfg /\ ~calls[i].cfg["request_admin"]
            /\ Cardinality(LinksCreated(ins)) = 1
            /\ LinksDeleted(unins) = LinksCreated(ins)
            /\ RemovesFolder(unins)
            /\ ~AllUsersContext(unins)

-----------------------------------------------------------------------------
(* C16 *)

\* the icon paths the defines of one role name, one per define line
IconDefines(lines, role) ==
    [n \in LinesWith(lines, role) |-> SubSeq(lines[n], 2, Len(lines[n]) - 1)]

\* the record names an icon under key and the file is on disk
IconThere(c, key, files) == c[key] # EMPTY /\ c[key] # None /\ c[key] \in files

\* C16: a script has one MUI_ICON define, naming the installer icon, when the
\* installer icon is set and on disk, and none otherwise; it has one
\* MUI_UNICON define, naming the uninstaller icon when that is set and on
\* disk, else the installer icon when that is set and on disk, and none when
\* neither is.
C16_IconDefines ==
    \A i \in Rendered :
        LET c == calls[i].cfg
            files == calls[i].files
            icon == IconDefines(calls[i].out.lines, "!define MUI_ICON \"")
            unicon == IconDefines(calls[i].out.lines, "!define MUI_UNICON \"")
        IN  {"installer_icon", "uninstaller_icon"} \subseteq DOMAIN c
            => /\ Cardinality(DOMAIN icon) <= 1 /\ Cardinality(DOMAIN unicon) <= 1
               /\ (DOMAIN icon # {} <=> IconThere(c, "installer_icon", files))
               /\ \A n \in DOMAIN icon : icon[n] = c["installer_icon"]
               /\ (DOMAIN unicon # {} <=> (IconThere(c, "uninstaller_icon", files)
                                            \/ IconThere(c, "installer_icon", files)))
               /\ \A n \in DOMAIN unicon :
                     unicon[n] = (IF IconThere(c, "uninstaller_icon", files)
                                  THEN c["uninstaller_icon"] ELSE c["installer_icon"])

\* both icons are named, the uninstaller icon has been deleted, and the
\* uninstaller's define falls back to the installer icon; and another render
\* with both on disk names each its own
C16_Witness ==
    /\ \E i \in Rendered :
          /\ calls[i].cfg["installer_icon"] = InstallerIcon
          /\ calls[i].cfg["uninstaller_icon"] = UninstallerIcon
          /\ calls[i].files = {InstallerIcon}
          /\ \E n \in 1..Len(calls[i].out.lines) :
                calls[i].out.lines[n] = <<"!define MUI_UNICON \"">> \o InstallerIcon \o <<"\"">>
    /\ \E i \in Rendered :
          /\ {InstallerIcon, UninstallerIcon} \subseteq calls[i].files
          /\ \E n \in 1..Len(calls[i].out.lines) :
                calls[i].out.lines[n] = <<"!define MUI_UNICON \"">> \o UninstallerIcon \o <<"\"">>

-----------------------------------------------------------------------------
(* C17 *)

\* the record has no language list, or an empty one
NoLanguages(c) == "selected_languages" \notin DOMAIN c \/ c["selected_languages"] = << >>

\* nothing but the language list is missing from the record
CompleteButLanguages(c) ==
    /\ RequiredKeys \subseteq DOMAIN c
    /\ "main_executable" \in DOMAIN c => c["main_executable"] # None

WarningLine == <<"Warning: No languages selected, defaulting to English.">>

\* C17: an invocation on a record whose language list is empty or absent,
\* and which is complete otherwise, returns a script; the script has exactly
\* one MUI_LANGUAGE directive, for English; and the warning of line 339 is
\* printed.
C17_EnglishFallback ==
    \A i \in 1..Len(calls) :
        (NoLanguages(calls[i].cfg) /\ CompleteButLanguages(calls[i].cfg))
        => /\ calls[i].out.kind = "script"
           /\ LanguagesOf(calls[i].out.lines) = << <<"English">> >>
           /\ \E n \in 1..Len(calls[i].printed) : calls[i].printed[n] = WarningLine

\* a record with an empty list has been rendered
C17_Witness ==
    \E i \in Rendered :
        /\ NoLanguages(calls[i].cfg)
        /\ "selected_languages" \in DOMAIN calls[i].cfg
        /\ Len(LanguagesOf(calls[i].out.lines)) = 1
        /\ calls[i].printed = <<WarningLine>>

-----------------------------------------------------------------------------
(* C18 *)

\* the level the RequestExecutionLevel line of a script asks for
ExecutionLevelOf(lines) ==
    IF \E n \in 1..Len(lines) : lines[n] = <<"RequestExecutionLevel admin">> THEN "admin"
    ELSE IF \E n \in 1..Len(lines) : lines[n] = <<"RequestExecutionLevel user">> THEN "user"
    ELSE "none"

\* the hive of the InstallDirRegKey line of a script
InstallHiveOf(lines) ==
    HiveOf(lines[CHOOSE n \in 1..Len(lines) : StartsWith(lines[n], "InstallDirRegKey ")])

\* C18: in every script, also one rendered from a record without
\* request_admin or prefer_64bit, the install root is $LOCALAPPDATA exactly
\* when the execution level is user and the hive HKCU, and it is
\* $PROGRAMFILES or $PROGRAMFILES64 exactly when the level is admin and the
\* hive HKLM.
C18_PrivilegeOutputsAgree ==
    \A i \in Rendered :
        LET root == InstallRootOf(calls[i].out.lines)
            level == ExecutionLevelOf(calls[i].out.lines)
            hive == InstallHiveOf(calls[i].out.lines)
        IN  /\ (root = "$LOCALAPPDATA" <=> (level = "user" /\ hive = "HKCU"))
            /\ (root \in {"$PROGRAMFILES", "$PROGRAMFILES64"}
                   <=> (level = "admin" /\ hive = "HKLM"))

-----------------------------------------------------------------------------
(* C11 *)

\* the language a typed line names, letter case apart
NamedBy(line) == LowerLine(Strip(line))

\* at every point after the primary prompt was answered: the list has an
\* entry, its first entry is what was typed first (English when that line was
\* blank), no two entries are equal letter case apart, and the list stored in
\* the record is that list
C11_ListInvariant ==
    pc \in {"next_lang", "store", "stored"}
    => /\ Len(selected_languages) >= 1
       /\ LowerLine(selected_languages[1]) =
             (IF NamedBy(typed[1]) = << >> THEN LowerLine(English) ELSE NamedBy(typed[1]))
       /\ \A i, j \in 1..Len(selected_languages) :
             LowerLine(selected_languages[i]) = LowerLine(selected_languages[j]) => i = j
       /\ (pc = "stored" => config["selected_languages"] = selected_languages)

\* a step in which a line is typed that names, in any letter case, a language
\* of the list leaves the list as it is
C11_KnownLanguageStep ==
    (/\ Len(typed') = Len(typed) + 1
     /\ \E i \in 1..Len(selected_languages) :
           LowerLine(selected_languages[i]) = NamedBy(typed'[Len(typed')]))
    => selected_languages' = selected_languages

\* C11: whatever is typed at the language prompts, the list has at least one
\* entry, its first entry is the primary language typed first, no two entries
\* are equal after case normalisation, the record stores that list, and
\* typing a language that is already in the list, in any letter case, leaves
\* the list unchanged.
C11_LanguageList == []C11_ListInvariant /\ [][C11_KnownLanguageStep]_vars

\* fr, de, FR and a blank line were typed: the list stored is Fr, De
C11_Witness ==
    /\ pc = "stored"
    /\ typed = << <<"f", "r">>, <<"d", "e">>, <<"F", "R">>, << >> >>
    /\ config["selected_languages"] = << <<"F", "r">>, <<"D", "e">> >>

-----------------------------------------------------------------------------
(* C12 *)

\* the last thing input() delivered
LastTyped == typed[Len(typed)]

\* the helper has handed a value back
HasReturned == pc \in {"returned", "assigned"}

\* four groups of decimal digits with a dot between them: only digits and
\* exactly three dots, a digit at both ends, no dot next to a dot
IsDottedQuad(v) ==
    /\ v # << >>
    /\ \A i \in 1..Len(v) : v[i] = "." \/ IsDigit(v[i])
    /\ Cardinality({i \in 1..Len(v) : v[i] = "."}) = 3
    /\ v[1] # "." /\ v[Len(v)] # "."
    /\ \A i \in 1..(Len(v) - 1) : ~(v[i] = "." /\ v[i + 1] = ".")

\* the line just typed, or the default it stands for, is not a version
MalformedAnswer ==
    /\ typed # << >> /\ ~Aborted(LastTyped)
    /\ \/ Strip(LastTyped) # << >> /\ ~IsDottedQuad(Strip(LastTyped))
       \/ Strip(LastTyped) = << >> /\ call.default # None /\ ~IsDottedQuad(call.default)

\* C12 as stated: for every default and allow_empty, the value
\* validate_product_version returns is four dot-separated groups of digits,
\* so is the product_version assigned from it, and a malformed line or
\* default leaves the helper prompting.
C12_NeverMalformed ==
    call.fn = "validate_product_version"
    => /\ HasReturned => IsDottedQuad(returned)
       /\ pc = "assigned" => IsDottedQuad(config[call.key])
       /\ MalformedAnswer => pc = "input"

\* C12 as amended: the value validate_product_version returns is four
\* dot-separated groups of digits, except that it is the empty string when a
\* blank line is typed, default is None and allow_empty is true; the call of
\* lines 471-475 (default 1.0.0.0, allow_empty false) returns, and assigns to
\* product_version, nothing but such a version; a malformed line or default
\* leaves the helper prompting.
C12_MalformedNeverAccepted ==
    call.fn = "validate_product_version"
    => /\ HasReturned =>
             \/ IsDottedQuad(returned)
             \/ /\ returned = EMPTY
                /\ Strip(LastTyped) = << >> /\ call.default = None /\ call.allow_empty
       /\ (HasReturned /\ call \in ProgramCalls) => IsDottedQuad(returned)
       /\ pc = "assigned" => IsDottedQuad(config["product_version"])
       /\ MalformedAnswer => pc = "input"

\* with the malformed default 1.0: a blank line and 1.0.0 were answered by
\* another prompt, then 2.0.0.1 was returned without the blanks around it
C12_Witness ==
    /\ call.fn = "validate_product_version"
    /\ call.default = <<"1", ".", "0">>
    /\ typed = << << >>, <<"1", ".", "0", ".", "0">>,
                  <<" ", "2", ".", "0", ".", "0", ".", "1", " ">> >>
    /\ pc = "returned"
    /\ returned = <<"2", ".", "0", ".", "0", ".", "1">>

-----------------------------------------------------------------------------
(* C13 *)

\* the position in options the typed text chooses, 0 when it chooses none:
\* a numeral from 1 to the number of options, with or without a plus sign
ChosenPosition(text, options) ==
    LET numeral == IF text # << >> /\ text[1] = "+" THEN Tail(text) ELSE text IN
    IF Len(numeral) = 1 /\ IndexIn(Digits, numeral[1]) - 1 \in 1..Len(options)
    THEN IndexIn(Digits, numeral[1]) - 1
    ELSE 0

\* the value returned is the one the last line asks for
AnswerHonoured ==
    LET text == Strip(LastTyped) IN
    CASE call.fn = "ask_string" ->
           /\ text # << >> => returned = text
           /\ text = << >> => (call.default # None \/ call.allow_empty)
           /\ returned = << >> => (call.default # None \/ call.allow_empty)
      [] call.fn = "ask_bool" ->
           /\ returned \in BOOLEAN
           /\ LowerLine(text) \in {<< >>, <<"y">>, <<"y", "e", "s">>, <<"n">>, <<"n", "o">>}
           /\ LowerLine(text) \in {<<"y">>, <<"y", "e", "s">>} => returned = TRUE
           /\ LowerLine(text) \in {<<"n">>, <<"n", "o">>} => returned = FALSE
           /\ text = << >> => returned = call.default_bool
      [] call.fn = "ask_choice" ->
           /\ \E i \in 1..Len(call.options) : call.options[i] = returned
           /\ text = << >> => returned = call.default
           /\ text # << >> =>
                 /\ ChosenPosition(text, call.options) # 0
                 /\ returned = call.options[ChosenPosition(text, call.options)]
      [] OTHER -> TRUE

\* the path returned is on disk and of the kind asked for
RequiredPathReturned ==
    /\ returned \in fs
    /\ (call.is_dir <=> returned \in Directories)

\* an empty path was allowed, an empty line typed and no default given
EmptyPathReturned ==
    /\ returned = EMPTY
    /\ call.allow_empty
    /\ Strip(LastTyped) = << >>
    /\ call.default \in {None, EMPTY}

\* a helper is prompting, has returned, or has ended the process with
\* status 1 on end of input or interrupt, never anything else
EndsOneOfTwoWays ==
    /\ pc \in {"input", "returned", "assigned", "exit"}
    /\ (pc = "exit" <=> (typed # << >> /\ Aborted(LastTyped)))
    /\ (pc = "exit" => exit_code = 1)
    /\ (pc # "exit" => exit_code = NoExit)
    /\ (HasReturned => typed # << >>)

\* C13 as stated: each helper either returns a value meeting its constraint
\* (ask_path with check_exists='require': an existing path of the kind asked
\* for) or exits with status 1 on end of input or interrupt; an invalid line
\* never ends the loop with a value and nothing is raised.
C13_HelperEnds ==
    /\ EndsOneOfTwoWays
    /\ HasReturned => AnswerHonoured
    /\ (HasReturned /\ call.fn = "ask_path" /\ call.check_exists = <<"require">>)
          => RequiredPathReturned

\* C13 as amended: as stated, except that ask_path with
\* check_exists='require' returns the empty string instead of an existing
\* path when allow_empty is true, the line typed is blank and default is None
\* or empty.
C13_HelperEndsOrEmptyPath ==
    /\ EndsOneOfTwoWays
    /\ HasReturned => AnswerHonoured
    /\ (HasReturned /\ call.fn = "ask_path" /\ call.check_exists = <<"require">>)
          => (RequiredPathReturned \/ EmptyPathReturned)

\* a directory is required: the missing path c and the file b were answered
\* by another prompt, then a/ was returned as a
C13_Witness ==
    /\ call.fn = "ask_path" /\ call.check_exists = <<"require">> /\ call.is_dir
    /\ typed = << <<"c">>, <<"b">>, <<"a", "/">> >>
    /\ fs = PromptPaths
    /\ pc = "returned"
    /\ returned = <<"a">>

====
